---- MODULE Spec2Model ----
(***************************************************************************)
(* pySOT test problems (src/pySOT/test_problems.py): the schema check      *)
(* validate, the constructors of the fifteen shipped problem classes and   *)
(* the control flow of their evaluators.                                   *)
(*                                                                         *)
(* Conventions.  A Python value is a record [ty, v]: ty is its Python type *)
(* ("int", "float", "bool", "ndarray", "list", "tuple") or "absent" when   *)
(* the attribute does not exist, v its content.  Array elements that are   *)
(* bounds are kept in thousandths (5.12 is 5120, np.pi is 3142), so that   *)
(* every comparison the code makes between bounds is an integer            *)
(* comparison.  Python indices are 0-based: x[i] is x.v[i + 1].  dim/2 is  *)
(* Python 2 integer division (\div).                                       *)
(***************************************************************************)
EXTENDS Integers, Sequences, FiniteSets, TLC

VARIABLES pc, self, cons, fun, ret, prev, callers

vars == <<pc, self, cons, fun, ret, prev, callers>>

(* ------------------------------ bounds --------------------------------- *)

\* largest explicit dim argument given to a shipped constructor
MaxDimArg == 4
\* longest vector x given to an evaluator
MaxXLen == 5
\* largest dim, and longest container, of a user-defined problem object
MaxUserDim == 2
\* the number of values in [0, 1) a random generator hands out: k / UGrid
UGrid == 2
\* longest vector x with a component other than 0 and 1
MaxWideLen == 2
\* the number of steps a continuous variable's range is cut into
Grid == 2

(* --------------------------- Python values ----------------------------- *)

PyInt(n) == [ty |-> "int", v |-> n]
PyFloat(n) == [ty |-> "float", v |-> n]
PyBool(b) == [ty |-> "bool", v |-> b]
ndarray(s) == [ty |-> "ndarray", v |-> s]
list(s) == [ty |-> "list", v |-> s]
tuple(s) == [ty |-> "tuple", v |-> s]
AbsentNum == [ty |-> "absent", v |-> 0]
AbsentSeq == [ty |-> "absent", v |-> <<>>]
AbsentBool == [ty |-> "absent", v |-> FALSE]

len(a) == Len(a.v)

\* c * np.ones(n), c in thousandths
Filled(c, n) == [i \in 1..n |-> c]
np_zeros(n) == ndarray(Filled(0, n))
np_ones(n) == ndarray(Filled(1000, n))
np_arange(a, b) == ndarray([i \in 1..(b - a) |-> a + i - 1])
np_hstack(a, b) == ndarray(a.v \o b.v)

Range(s) == {s[i] : i \in DOMAIN s}

Max(S) == CHOOSE m \in S : \A n \in S : n <= m
Min(S) == CHOOSE m \in S : \A n \in S : m <= n
np_amax(a) == Max(Range(a.v))
np_amin(a) == Min(Range(a.v))
\* the sorted unique common values; only its length is used
np_intersect1d(a, b) == Range(a.v) \cap Range(b.v)

(* ------------------------------ numbers -------------------------------- *)

\* The values an evaluator computes with are rationals <<n, d>> in lowest terms
\* with d > 0; a float literal such as 1.333 or -5.12 is the rational it denotes.

Abs(n) == IF n < 0 THEN -n ELSE n

RECURSIVE GCD(_, _)
GCD(a, b) == IF b = 0 THEN a ELSE GCD(b, a % b)

Frac(n, d) ==
    LET g == GCD(Abs(n), Abs(d))
        s == IF d < 0 THEN -1 ELSE 1
    IN <<(s * n) \div g, (s * d) \div g>>

Q(n) == <<n, 1>>

QAdd(a, b) == Frac(a[1] * b[2] + b[1] * a[2], a[2] * b[2])
QNeg(a) == <<-a[1], a[2]>>
QSub(a, b) == QAdd(a, QNeg(b))
QMul(a, b) == Frac(a[1] * b[1], a[2] * b[2])
QLe(a, b) == a[1] * b[2] <= b[1] * a[2]
QLt(a, b) == a[1] * b[2] < b[1] * a[2]

\* y**2 and y**4
Sq(a) == QMul(a, a)
Pow4(a) == Sq(Sq(a))

\* sum(...) and np.prod(...) over a sequence of numbers
RECURSIVE QSum(_)
QSum(s) ==
    IF s = <<>> THEN Q(0)
    ELSE IF Len(s) = 1 THEN s[1]
    ELSE LET m == Len(s) \div 2
         IN QAdd(QSum(SubSeq(s, 1, m)), QSum(SubSeq(s, m + 1, Len(s))))
RECURSIVE QProd(_)
QProd(s) ==
    IF s = <<>> THEN Q(1)
    ELSE IF Len(s) = 1 THEN s[1]
    ELSE LET m == Len(s) \div 2
         IN QMul(QProd(SubSeq(s, 1, m)), QProd(SubSeq(s, m + 1, Len(s))))

\* x[i] for a valid index i, negative ones counting from the end
At(x, i) == x[(i % Len(x)) + 1]

(* ------------------------------ objects -------------------------------- *)

Attrs == {"dim", "xlow", "xup", "integer", "continuous", "constraints"}
MethodNames == {"objfunction", "eval_ineq_constraints"}

\* min is the documented optimum value; prng is Quartic's random.Random(), whose
\* state is modelled by the next number it will hand out, v / UGrid
AbsentMin == [ty |-> "absent", v |-> Q(0)]
AbsentPrng == [ty |-> "absent", v |-> 0]
PyNum(q) == [ty |-> IF q[2] = 1 THEN "int" ELSE "float", v |-> q]
Random(k) == [ty |-> "Random", v |-> k]

NoObj == [cls |-> "None", dim |-> AbsentNum, xlow |-> AbsentSeq, xup |-> AbsentSeq,
          integer |-> AbsentSeq, continuous |-> AbsentSeq,
          constraints |-> AbsentBool, min |-> AbsentMin, prng |-> AbsentPrng,
          methods |-> {}]

hasattr(obj, a) ==
    IF a \in MethodNames THEN a \in obj.methods ELSE obj[a].ty # "absent"

(* ------------------------------ validate ------------------------------- *)

\* the asserts of lines 84 and 86 taken in the other order
CheckOrderCountFirst ==
    << "dim_present", "xlow_present", "xlow_ndarray", "xup_present", "xup_ndarray",
       "integer_present", "integer_typed", "continuous_present", "continuous_typed",
       "constraints_present", "constraints_bool", "objfunction_present",
       "eval_ineq_present", "dim_positive_int", "bound_lengths", "strict_bounds",
       "integer_range", "continuous_range", "count", "disjoint" >>

\* the asserts of validate, in source order
CheckOrder ==
    << "dim_present", "xlow_present", "xlow_ndarray", "xup_present", "xup_ndarray",
       "integer_present", "integer_typed", "continuous_present", "continuous_typed",
       "constraints_present", "constraints_bool", "objfunction_present",
       "eval_ineq_present", "dim_positive_int", "bound_lengths", "strict_bounds",
       "integer_range", "continuous_range", "disjoint", "count" >>

\* line 64 dropped: the method is required whatever the flag
AppliesFlagIgnored(c, obj) ==
    CASE c = "eval_ineq_present" -> TRUE
      [] c = "integer_range" -> len(obj.integer) > 0
      [] c = "continuous_range" -> len(obj.continuous) > 0
      [] OTHER -> TRUE

\* the `if` a conditional assert sits under
Applies(c, obj) ==
    CASE c = "eval_ineq_present" -> obj.constraints.v
      [] c = "integer_range" -> len(obj.integer) > 0
      [] c = "continuous_range" -> len(obj.continuous) > 0
      [] OTHER -> TRUE

Typed(a) ==
    IF len(a) > 0 THEN a.ty = "ndarray" ELSE a.ty = "ndarray" \/ a.ty = "list"

\* line 69 with `>=` for `>`
DimNonNegativeInt(obj) == obj.dim.ty = "int" /\ obj.dim.v >= 0

\* isinstance(obj.dim, int) and obj.dim > 0
DimPositiveInt(obj) == obj.dim.ty = "int" /\ obj.dim.v > 0

\* line 74 with `<=` for `<`
NonStrictBounds(obj) ==
    \A i \in 0..(obj.dim.v - 1) : obj.xlow.v[i + 1] <= obj.xup.v[i + 1]

\* all(obj.xlow[i] < obj.xup[i] for i in range(obj.dim))
StrictBounds(obj) ==
    \A i \in 0..(obj.dim.v - 1) : obj.xlow.v[i + 1] < obj.xup.v[i + 1]

\* the condition each assert tests
Holds(c, obj) ==
    CASE c = "dim_present" -> hasattr(obj, "dim")
      [] c = "xlow_present" -> hasattr(obj, "xlow")
      [] c = "xlow_ndarray" -> obj.xlow.ty = "ndarray"
      [] c = "xup_present" -> hasattr(obj, "xup")
      [] c = "xup_ndarray" -> obj.xup.ty = "ndarray"
      [] c = "integer_present" -> hasattr(obj, "integer")
      [] c = "integer_typed" -> Typed(obj.integer)
      [] c = "continuous_present" -> hasattr(obj, "continuous")
      [] c = "continuous_typed" -> Typed(obj.continuous)
      [] c = "constraints_present" -> hasattr(obj, "constraints")
      [] c = "constraints_bool" -> obj.constraints.ty = "bool"
      [] c = "objfunction_present" -> hasattr(obj, "objfunction")
      [] c = "eval_ineq_present" -> hasattr(obj, "eval_ineq_constraints")
      [] c = "dim_positive_int" -> DimPositiveInt(obj)
      [] c = "bound_lengths" -> len(obj.xlow) = obj.dim.v /\ len(obj.xup) = obj.dim.v
      [] c = "strict_bounds" -> StrictBounds(obj)
      [] c = "integer_range" ->
            np_amax(obj.integer) < obj.dim.v /\ np_amin(obj.integer) >= 0
      [] c = "continuous_range" ->
            np_amax(obj.continuous) < obj.dim.v /\ np_amin(obj.continuous) >= 0
      [] c = "disjoint" ->
            Cardinality(np_intersect1d(obj.continuous, obj.integer)) = 0
      [] c = "count" -> len(obj.continuous) + len(obj.integer) = obj.dim.v

\* the message of each assert
Message(c) ==
    CASE c = "dim_present" -> "Problem dimension required"
      [] c \in {"xlow_present", "xlow_ndarray"} -> "Numpy array of lower bounds required"
      [] c \in {"xup_present", "xup_ndarray"} -> "Numpy array of upper bounds required"
      [] c \in {"integer_present", "integer_typed"} -> "Integer variables must be specified"
      [] c \in {"continuous_present", "continuous_typed"} ->
            "Continuous variables must be specified"
      [] c = "constraints_present" -> "Existence of constraints must be specified"
      [] c = "constraints_bool" -> "Constraint existence must be bool"
      [] c = "objfunction_present" -> "Method 'objfunction' is not implemented"
      [] c = "eval_ineq_present" -> "Method 'eval_ineq_constraints' is not implemented"
      [] c = "dim_positive_int" -> "Problem dimension must be a positive integer."
      [] c = "bound_lengths" -> "Incorrect size for xlow and xup"
      [] c = "strict_bounds" -> "Lower bounds must be below upper bounds."
      [] c = "integer_range" ->
            "Integer variable index can't exceed number of dimensions or be negative"
      [] c = "continuous_range" ->
            "Continuous variable index can't exceed number of dimensions or be negative"
      [] c = "disjoint" -> "A variable can't be both an integer and continuous"
      [] c = "count" -> "All variables must be either integer or continuous"

NoExc == [exc |-> "none", msg |-> "", check |-> "", evaluated |-> <<>>]

\* statement after statement: the first assert that fails raises, and the asserts
\* after it are not reached; evaluated lists the asserts that were
RECURSIVE RunChecks(_, _, _)
RunChecks(obj, k, done) ==
    IF k > Len(CheckOrder)
    THEN [NoExc EXCEPT !.evaluated = done]
    ELSE LET c == CheckOrder[k]
         IN IF ~Applies(c, obj)
            THEN RunChecks(obj, k + 1, done)
            ELSE IF Holds(c, obj)
                 THEN RunChecks(obj, k + 1, Append(done, c))
                 ELSE [exc |-> "AssertionError", msg |-> Message(c), check |-> c,
                       evaluated |-> Append(done, c)]

validate(obj) == RunChecks(obj, 1, <<>>)

(* ---------------------------- constructors ----------------------------- *)

ConstrainedClasses == {"Keane", "LargestPolygon", "LinearMI"}
BoxClasses == {"Rastrigin", "Ackley", "Griewank", "Rosenbrock", "Schwefel", "Sphere",
               "Exponential", "StyblinskiTang", "Quartic", "Whitley", "SchafferF7"}
\* the classes whose constructor takes dim and uses it
NDimClasses == BoxClasses \cup {"Keane", "LargestPolygon"}
Classes == {"Hartman3", "LinearMI"} \cup NDimClasses

\* the methods each class defines
Methods(cls) ==
    IF cls \in ConstrainedClasses
    THEN {"objfunction", "eval_ineq_constraints"}
    ELSE {"objfunction"}

\* an instance before __init__ has assigned anything
Blank(cls) == [NoObj EXCEPT !.cls = cls, !.methods = Methods(cls)]

\* an exception raised by a statement of __init__ before validate is called
RaisedInInit(cls, exc, msg) ==
    [self |-> Blank(cls), validated |-> FALSE,
     exc |-> exc, msg |-> msg, check |-> "", evaluated |-> <<>>]

\* the last statement of every __init__: validate(self)
Validated(obj) ==
    LET r == validate(obj)
    IN [self |-> obj, validated |-> TRUE,
        exc |-> r.exc, msg |-> r.msg, check |-> r.check, evaluated |-> r.evaluated]

\* the attributes the box-constrained classes assign: lo * np.ones(dim),
\* hi * np.ones(dim), integer = [], continuous = np.arange(0, dim).
\* np.ones and np.zeros raise ValueError on a negative length.
BoxAttrs(cls, dim, lo, hi, min, constraints) ==
    [cls |-> cls, dim |-> PyInt(dim),
     xlow |-> ndarray(Filled(lo, dim)), xup |-> ndarray(Filled(hi, dim)),
     integer |-> list(<<>>), continuous |-> np_arange(0, dim),
     constraints |-> PyBool(constraints), min |-> PyNum(min), prng |-> AbsentPrng,
     methods |-> Methods(cls)]

BoxInit(cls, dim, lo, hi, min, constraints) ==
    IF dim < 0
    THEN RaisedInInit(cls, "ValueError", "negative dimensions are not allowed")
    ELSE Validated(BoxAttrs(cls, dim, lo, hi, min, constraints))

Hartman3_init(dim) ==
    Validated([cls |-> "Hartman3", dim |-> PyInt(3),
               xlow |-> np_zeros(3), xup |-> np_ones(3),
               integer |-> list(<<>>), continuous |-> np_arange(0, 3),
               constraints |-> PyBool(FALSE), min |-> PyNum(Frac(-386278, 100000)),
               prng |-> AbsentPrng, methods |-> Methods("Hartman3")])

Rastrigin_init(dim) == BoxInit("Rastrigin", dim, -5120, 5120, Q(0), FALSE)
Ackley_init(dim) == BoxInit("Ackley", dim, -15000, 20000, Q(0), FALSE)
Griewank_init(dim) == BoxInit("Griewank", dim, -512000, 512000, Q(0), FALSE)
Rosenbrock_init(dim) == BoxInit("Rosenbrock", dim, -2048, 2048, Q(0), FALSE)
Schwefel_init(dim) == BoxInit("Schwefel", dim, -512000, 512000, Q(0), FALSE)
Sphere_init(dim) == BoxInit("Sphere", dim, -5120, 5120, Q(0), FALSE)
Exponential_init(dim) == BoxInit("Exponential", dim, -5120, 5120, Q(0), FALSE)
StyblinskiTang_init(dim) == BoxInit("StyblinskiTang", dim, -5000, 5000, QMul(Frac(-3916599, 100000), Q(dim)), FALSE)
\* self.prng = random.Random() is assigned before validate(self) runs; the seed,
\* time(), is chosen where the constructor is called
Quartic_init(dim) ==
    IF dim < 0
    THEN RaisedInInit("Quartic", "ValueError", "negative dimensions are not allowed")
    ELSE Validated([BoxAttrs("Quartic", dim, -1280, 1280, Q(0), FALSE)
                        EXCEPT !.prng = Random(0)])
Whitley_init(dim) == BoxInit("Whitley", dim, -10240, 10240, Q(0), FALSE)
SchafferF7_init(dim) == BoxInit("SchafferF7", dim, -100000, 100000, Q(0), FALSE)
Keane_init(dim) == BoxInit("Keane", dim, 0, 5000, Frac(-835, 1000), TRUE)

\* the constructor without its `assert dim % 2 == 0`
LargestPolygon_initUnasserted(dim) ==
    IF dim < 0
    THEN RaisedInInit("LargestPolygon", "ValueError", "negative dimensions are not allowed")
    ELSE Validated([cls |-> "LargestPolygon", dim |-> PyInt(dim),
                    xlow |-> np_zeros(dim),
                    xup |-> np_hstack(np_ones(dim \div 2),
                                      ndarray(Filled(3142, dim \div 2))),
                    integer |-> list(<<>>), continuous |-> np_arange(0, dim),
                    constraints |-> PyBool(TRUE), min |-> PyNum(Frac(-7854, 10000)),
                    prng |-> AbsentPrng, methods |-> Methods("LargestPolygon")])

LargestPolygon_init(dim) ==
    IF dim % 2 # 0
    THEN RaisedInInit("LargestPolygon", "AssertionError", "dim was odd, should be even")
    ELSE IF dim < 0
    THEN RaisedInInit("LargestPolygon", "ValueError", "negative dimensions are not allowed")
    ELSE Validated([cls |-> "LargestPolygon", dim |-> PyInt(dim),
                    xlow |-> np_zeros(dim),
                    xup |-> np_hstack(np_ones(dim \div 2),
                                      ndarray(Filled(3142, dim \div 2))),
                    integer |-> list(<<>>), continuous |-> np_arange(0, dim),
                    constraints |-> PyBool(TRUE), min |-> PyNum(Frac(-7854, 10000)),
                    prng |-> AbsentPrng, methods |-> Methods("LargestPolygon")])

\* np.arange(0, 2) and np.arange(2, 5) for the two index arrays
LinearMI_initTwoIntegers ==
    Validated([cls |-> "LinearMI", dim |-> PyInt(5),
               xlow |-> np_zeros(5),
               xup |-> ndarray(<<10000, 10000, 10000, 1000, 1000>>),
               integer |-> np_arange(0, 2), continuous |-> np_arange(2, 5),
               constraints |-> PyBool(TRUE), min |-> PyNum(Q(-1)), prng |-> AbsentPrng,
               methods |-> Methods("LinearMI")])

\* np.arange(3, 4) for the continuous indices
LinearMI_initShortContinuous ==
    Validated([cls |-> "LinearMI", dim |-> PyInt(5),
               xlow |-> np_zeros(5),
               xup |-> ndarray(<<10000, 10000, 10000, 1000, 1000>>),
               integer |-> np_arange(0, 3), continuous |-> np_arange(3, 4),
               constraints |-> PyBool(TRUE), min |-> PyNum(Q(-1)), prng |-> AbsentPrng,
               methods |-> Methods("LinearMI")])

LinearMI_init ==
    Validated([cls |-> "LinearMI", dim |-> PyInt(5),
               xlow |-> np_zeros(5),
               xup |-> ndarray(<<10000, 10000, 10000, 1000, 1000>>),
               integer |-> np_arange(0, 3), continuous |-> np_arange(3, 5),
               constraints |-> PyBool(TRUE), min |-> PyNum(Q(-1)), prng |-> AbsentPrng,
               methods |-> Methods("LinearMI")])

\* the default of the dim parameter
DefaultDim(cls) == IF cls = "Hartman3" THEN 3 ELSE 10

\* cls(*args): args is <<>> (the default dim) or <<dim>>
Construct(cls, args) ==
    LET dim == IF args = <<>> THEN DefaultDim(cls) ELSE args[1]
    IN CASE cls = "Hartman3" -> Hartman3_init(dim)
         [] cls = "Rastrigin" -> Rastrigin_init(dim)
         [] cls = "Ackley" -> Ackley_init(dim)
         [] cls = "Griewank" -> Griewank_init(dim)
         [] cls = "Rosenbrock" -> Rosenbrock_init(dim)
         [] cls = "Schwefel" -> Schwefel_init(dim)
         [] cls = "Sphere" -> Sphere_init(dim)
         [] cls = "Exponential" -> Exponential_init(dim)
         [] cls = "StyblinskiTang" -> StyblinskiTang_init(dim)
         [] cls = "Quartic" -> Quartic_init(dim)
         [] cls = "Whitley" -> Whitley_init(dim)
         [] cls = "SchafferF7" -> SchafferF7_init(dim)
         [] cls = "Keane" -> Keane_init(dim)
         [] cls = "LargestPolygon" -> LargestPolygon_init(dim)
         [] cls = "LinearMI" -> LinearMI_init

(* ----------------------------- evaluators ------------------------------ *)

\* what a call did: the exception it raised ("none": it returned), the indices of x
\* it read in order (as written in the source, so x[-1] is -1), the positions of
\* the result vector it wrote in order, that vector's allocated size, and the kind
\* of value returned
\* rd and wr are the attributes of the object the call read and assigned.
\* The value returned is a number when the model can compute it exactly (exact),
\* and otherwise the expression `form` over the numbers `args`, q being its
\* rational part.  vec holds the values of a returned vector.
Exact(q) == [exact |-> TRUE, q |-> q, form |-> "number", args |-> <<>>]
Term(form, q, args) == [exact |-> FALSE, q |-> q, form |-> form, args |-> args]
NoValue == Term("none", Q(0), <<>>)

Returned(kind, reads, writes, size) ==
    [exc |-> "none", msg |-> "", reads |-> reads, writes |-> writes, size |-> size,
     kind |-> kind, value |-> NoValue, vec |-> <<>>, rd |-> {}, wr |-> {}]
Raise(exc, msg, reads) ==
    [exc |-> exc, msg |-> msg, reads |-> reads, writes |-> <<>>, size |-> 0,
     kind |-> "none", value |-> NoValue, vec |-> <<>>, rd |-> {}, wr |-> {}]
Scalar(reads) == Returned("scalar", reads, <<>>, 0)

\* return v
WithValue(r, v) == IF r.exc = "none" THEN [r EXCEPT !.value = v] ELSE r

\* vec = np.zeros((size,)), then vec[writes[k]] = vals[k] for each k in order
VecOf(size, writes, vals) ==
    [p \in 1..size |->
        LET ks == {k \in DOMAIN writes : writes[k] % size = p - 1}
        IN IF ks = {} THEN Exact(Q(0)) ELSE vals[Max(ks)]]

\* return vec
WithVec(r, vals) ==
    IF r.exc = "none" THEN [r EXCEPT !.vec = VecOf(r.size, r.writes, vals)] ELSE r

\* the call reads the attributes attrs of self
Reading(attrs, r) == [r EXCEPT !.rd = @ \cup attrs]

\* an expression the model does not evaluate: a function of the numbers read
Opaque(form, x) == Term(form, Q(0), x)

\* x[i] is defined for -len(x) <= i < len(x)
ValidIndex(i, n) == -n <= i /\ i < n

\* the body of an evaluator that reads x at `reads` and writes vec at `writes`:
\* the first index out of range raises IndexError
Indexed(x, r) ==
    LET reads == r.reads
        writes == r.writes
        badr == {k \in DOMAIN reads : ~ValidIndex(reads[k], Len(x))}
        badw == {k \in DOMAIN writes : ~ValidIndex(writes[k], r.size)}
    IN IF badr # {}
       THEN Raise("IndexError", "index out of bounds", SubSeq(reads, 1, Min(badr)))
       ELSE IF badw # {}
       THEN Raise("IndexError", "index out of bounds", reads)
       ELSE r

\* range(n) as the indices 0 .. n-1 in order
AllIdx(n) == [k \in 1..n |-> k - 1]

\* an evaluator whose body lacks the length check
Unguarded(obj, x, body) == body

\* if len(x) != self.dim: raise ValueError('Dimension mismatch')
Guarded(obj, x, body) ==
    Reading({"dim"},
        IF Len(x) # obj.dim.v
        THEN Raise("ValueError", "Dimension mismatch", <<>>)
        ELSE body)

\* for ii in range(4): for jj in range(3): xj = x[jj]
Hartman3_objfunction(obj, x) ==
    Guarded(obj, x, WithValue(Indexed(x, Scalar([k \in 1..12 |-> (k - 1) % 3])),
                              Opaque("Hartman3", x)))

\* return 10 * self.dim + sum(x**2 - 10 * np.cos(2 * np.pi * x))
Rastrigin_objfunction(obj, x) ==
    Guarded(obj, x, WithValue(Indexed(x, Scalar(AllIdx(Len(x)))),
                              Opaque("Rastrigin", x)))

\* n = float(len(x)); sum(x**2)/n
Ackley_objfunction(obj, x) ==
    Guarded(obj, x,
        IF Len(x) = 0
        THEN Raise("ZeroDivisionError", "float division by zero", <<>>)
        ELSE WithValue(Indexed(x, Scalar(AllIdx(Len(x)))), Opaque("Ackley", x)))

\* for i, y in enumerate(x)
Griewank_objfunction(obj, x) ==
    Guarded(obj, x, WithValue(Indexed(x, Scalar(AllIdx(Len(x)))),
                              Opaque("Griewank", x)))

\* total += 100 * (x[i] ** 2 - x[i+1]) ** 2 + (x[i] - 1) ** 2
Rosenbrock_term(x, i) ==
    QAdd(QMul(Q(100), Sq(QSub(Sq(At(x, i)), At(x, i + 1)))),
         Sq(QSub(At(x, i), Q(1))))

\* the second summand read as (x[i] + 1) ** 2
Rosenbrock_valuePlusOne(x) ==
    Exact(QSum([k \in 1..(Len(x) - 1) |->
        QAdd(QMul(Q(100), Sq(QSub(Sq(At(x, k - 1)), At(x, k)))),
             Sq(QAdd(At(x, k - 1), Q(1))))]))

\* total = 0; for i in range(len(x) - 1): total += ...; return total
Rosenbrock_value(x) ==
    Exact(QSum([k \in 1..(Len(x) - 1) |-> Rosenbrock_term(x, k - 1)]))

\* for i in range(len(x) - 1): x[i], x[i+1], x[i]
Rosenbrock_objfunction(obj, x) ==
    Guarded(obj, x, WithValue(Indexed(x, Scalar(
        [k \in 1..(3 * (Len(x) - 1)) |->
            LET i == (k - 1) \div 3
            IN IF (k - 1) % 3 = 1 THEN i + 1 ELSE i])),
        Rosenbrock_value(x)))

Schwefel_objfunction(obj, x) ==
    Guarded(obj, x, WithValue(Indexed(x, Scalar(AllIdx(Len(x)))),
                              Opaque("Schwefel", x)))

\* return sum(x**2)
Sphere_value(x) == Exact(QSum([k \in 1..Len(x) |-> Sq(x[k])]))

Sphere_objfunction(obj, x) ==
    Guarded(obj, x, WithValue(Indexed(x, Scalar(AllIdx(Len(x)))), Sphere_value(x)))

\* total += np.exp((i+1)*x[i-1]) - np.exp(-5.12*(i+1)): the two exponents of
\* term i, for i in range(len(x))
Exponential_exponents(x) ==
    [k \in 1..Len(x) |->
        LET i == k - 1
        IN <<QMul(Q(i + 1), At(x, i - 1)), QMul(Frac(-512, 100), Q(i + 1))>>]

\* the sum of exp(a) - exp(b) over the pairs <<a, b>>: 0 when each a equals its b
Exponential_value(x) ==
    LET e == Exponential_exponents(x)
    IN [exact |-> \A k \in DOMAIN e : e[k][1] = e[k][2], q |-> Q(0),
        form |-> "sum(exp(a) - exp(b)) over args", args |-> e]

\* for i in range(len(x)): x[i-1]
Exponential_objfunction(obj, x) ==
    Guarded(obj, x, WithValue(Indexed(x, Scalar([k \in 1..Len(x) |-> (k - 1) - 1])),
                              Exponential_value(x)))

\* return 0.5*sum(x**4 - 16*x**2 + 5*x)
StyblinskiTang_value(x) ==
    Exact(QMul(Frac(1, 2),
               QSum([k \in 1..Len(x) |->
                        QAdd(QSub(Pow4(x[k]), QMul(Q(16), Sq(x[k]))),
                             QMul(Q(5), x[k]))])))

StyblinskiTang_objfunction(obj, x) ==
    Guarded(obj, x, WithValue(Indexed(x, Scalar(AllIdx(Len(x)))),
                              StyblinskiTang_value(x)))

\* self.prng.uniform(0, 1): the number the generator hands out next
uniform(prng) == Frac(prng.v, UGrid)

\* the weight (i+1.0) left out of the sum
Quartic_valueUnweighted(obj, x) ==
    Exact(QAdd(QSum([k \in 1..Len(x) |-> Pow4(At(x, k - 1))]), uniform(obj.prng)))

\* total = 0.0; for i in xrange(len(x)): total += (i+1.0) * x[i]**4.0
\* return total + self.prng.uniform(0, 1)
Quartic_value(obj, x) ==
    Exact(QAdd(QSum([k \in 1..Len(x) |-> QMul(Q((k - 1) + 1), Pow4(At(x, k - 1)))]),
               uniform(obj.prng)))

\* the draw reads the generator's state and advances it
Draws(r) == IF r.exc = "none" THEN [r EXCEPT !.rd = @ \cup {"prng"}, !.wr = {"prng"}]
            ELSE r

Quartic_objfunction(obj, x) ==
    Guarded(obj, x, Draws(WithValue(Indexed(x, Scalar(AllIdx(Len(x)))),
                                    Quartic_value(obj, x))))

\* for i in range(len(x)): for j in range(len(x)): x[i], x[j], x[j]
Whitley_reads(x) ==
    [k \in 1..(3 * Len(x) * Len(x)) |->
        LET i == (k - 1) \div (3 * Len(x))
            j == ((k - 1) \div 3) % Len(x)
        IN IF (k - 1) % 3 = 0 THEN i ELSE j]

\* temp = 100*((x[i]**2)-x[j]) + (1-x[j])**2, for each i and each j in loop order
Whitley_temp(x) ==
    [k \in 1..(Len(x) * Len(x)) |->
        LET i == (k - 1) \div Len(x)
            j == (k - 1) % Len(x)
        IN QAdd(QMul(Q(100), QSub(Sq(At(x, i)), At(x, j))),
                Sq(QSub(Q(1), At(x, j))))]

\* total += (float(temp**2)/4000.0) - np.cos(temp) + 1: np.cos(0) is 1, the
\* other cosines are left in the expression
Whitley_value(x) ==
    LET temp == Whitley_temp(x)
        zero == {k \in DOMAIN temp : temp[k] = Q(0)}
        q == QSub(QSum([k \in DOMAIN temp |->
                            QAdd(QMul(Sq(temp[k]), Frac(1, 4000)), Q(1))]),
                  Q(Cardinality(zero)))
    IN [exact |-> zero = DOMAIN temp, q |-> q,
        form |-> "q - sum(cos(args))", args |-> temp]

\* the same body without the length check
Whitley_objfunctionUnguarded(obj, x) ==
    Unguarded(obj, x, WithValue(Indexed(x, Scalar(Whitley_reads(x))), Whitley_value(x)))

Whitley_objfunction(obj, x) ==
    Guarded(obj, x, WithValue(Indexed(x, Scalar(Whitley_reads(x))), Whitley_value(x)))

\* normalizer = 1.0/float(len(x)-1); for i in range(len(x)-1): x[i], x[i+1]
SchafferF7_objfunction(obj, x) ==
    Guarded(obj, x,
        IF Len(x) - 1 = 0
        THEN Raise("ZeroDivisionError", "float division by zero", <<>>)
        ELSE WithValue(Indexed(x, Scalar(
                [k \in 1..(2 * (Len(x) - 1)) |->
                    LET i == (k - 1) \div 2
                    IN IF (k - 1) % 2 = 0 THEN i ELSE i + 1])),
                Opaque("SchafferF7", x)))

\* np.cos(x), x**2 over the whole array; the divisor is at least 1E-10
Keane_objfunction(obj, x) ==
    Guarded(obj, x, WithValue(Indexed(x, Scalar(AllIdx(Len(x)))), Opaque("Keane", x)))

\* the vector kept on the object: self.vec = np.zeros((2,)); ...; return self.vec
Keane_eval_ineq_constraintsOnSelf(obj, x) ==
    [Reading({"dim", "vec"},
        WithVec(Indexed(x, Returned("vector", AllIdx(Len(x)) \o AllIdx(Len(x)),
                                    <<0, 1>>, 2)),
                << Exact(QSub(Frac(75, 100), QProd(x))),
                   Exact(QSub(QSum(x), QMul(Frac(75, 10), Q(obj.dim.v)))) >>))
     EXCEPT !.wr = {"vec"}]

\* vec = np.zeros((2,)); vec[0] = 0.75 - np.prod(x); vec[1] = sum(x) - 7.5 * self.dim
Keane_eval_ineq_constraints(obj, x) ==
    Reading({"dim"},
        WithVec(Indexed(x, Returned("vector", AllIdx(Len(x)) \o AllIdx(Len(x)),
                                    <<0, 1>>, 2)),
                << Exact(QSub(Frac(75, 100), QProd(x))),
                   Exact(QSub(QSum(x), QMul(Frac(75, 10), Q(obj.dim.v)))) >>))

\* for i in range(self.dim/2 - 1):
\*     x[i+1], x[i], x[self.dim/2 + i + 1], x[self.dim/2 + i]
LargestPolygon_objfunction(obj, x) ==
    LET h == obj.dim.v \div 2
    IN Guarded(obj, x, WithValue(Indexed(x, Scalar(
        [k \in 1..(4 * (h - 1)) |->
            LET i == (k - 1) \div 4
                r == (k - 1) % 4
            IN CASE r = 0 -> i + 1
                 [] r = 1 -> i
                 [] r = 2 -> h + i + 1
                 [] r = 3 -> h + i])),
        Opaque("LargestPolygon", x)))

\* x[i]**2 + x[j]**2 - 2.0*x[i]*x[j]*np.cos(x[self.dim/2+i] - x[self.dim/2+j]) - 1:
\* np.cos(0) is 1, another cosine is left in the expression
LargestPolygon_pair(x, h, i, j) ==
    LET angle == QSub(At(x, h + i), At(x, h + j))
        squares == QSub(QAdd(Sq(At(x, i)), Sq(At(x, j))), Q(1))
        product == QMul(Q(2), QMul(At(x, i), At(x, j)))
    IN IF angle = Q(0)
       THEN Exact(QSub(squares, product))
       ELSE Term("q - args[1]*cos(args[2])", squares, <<product, angle>>)

\* the first loop writing position i*self.dim + j
LargestPolygon_pairWritesUnhalved(dim, h) ==
    [k \in 1..(h * h) |->
        LET i == (k - 1) \div h
            j == (k - 1) % h
        IN i * dim + j]

\* for i in range(self.dim/2): for j in range(self.dim/2): vec[i*self.dim/2+j] = ...
LargestPolygon_pairWrites(dim, h) ==
    [k \in 1..(h * h) |->
        LET i == (k - 1) \div h
            j == (k - 1) % h
        IN (i * dim) \div 2 + j]

\* for i in range(self.dim/2-1): vec[(self.dim/2)**2+i] = ...
LargestPolygon_angleWrites(dim, h) == [k \in 1..(h - 1) |-> h * h + (k - 1)]

\* vec = np.zeros(((self.dim/2)**2 + self.dim/2-1,))
\* for i in range(self.dim/2): for j in range(self.dim/2):
\*     vec[i*self.dim/2+j] = x[i], x[j], x[i], x[j], x[self.dim/2+i], x[self.dim/2+j]
\* for i in range(self.dim/2-1):
\*     vec[(self.dim/2)**2+i] = x[self.dim/2 + i], x[self.dim/2 + i + 1]
LargestPolygon_eval_ineq_constraints(obj, x) ==
    LET dim == obj.dim.v
        h == dim \div 2
        pairReads == [k \in 1..(6 * h * h) |->
                        LET i == (k - 1) \div (6 * h)
                            j == ((k - 1) \div 6) % h
                            r == (k - 1) % 6
                        IN CASE r \in {0, 2} -> i
                             [] r \in {1, 3} -> j
                             [] r = 4 -> h + i
                             [] r = 5 -> h + j]
        angleReads == [k \in 1..(2 * (h - 1)) |->
                        LET i == (k - 1) \div 2
                        IN IF (k - 1) % 2 = 0 THEN h + i ELSE h + i + 1]
        pairs == [k \in 1..(h * h) |->
                    LargestPolygon_pair(x, h, (k - 1) \div h, (k - 1) % h)]
        angles == [k \in 1..(h - 1) |->
                    Exact(QSub(At(x, h + (k - 1)), At(x, h + (k - 1) + 1)))]
    IN Reading({"dim"},
        WithVec(Indexed(x, Returned("vector", pairReads \o angleReads,
                                    LargestPolygon_pairWrites(dim, h)
                                        \o LargestPolygon_angleWrites(dim, h),
                                    h * h + h - 1)),
                pairs \o angles))

\* return - x[0] + 3 * x[1] + 1.5 * x[2] + 2 * x[3] - 0.5 * x[4]
LinearMI_value(x) ==
    Exact(QSub(QAdd(QAdd(QAdd(QNeg(At(x, 0)), QMul(Q(3), At(x, 1))),
                         QMul(Frac(15, 10), At(x, 2))),
                    QMul(Q(2), At(x, 3))),
               QMul(Frac(5, 10), At(x, 4))))

LinearMI_objfunction(obj, x) ==
    Guarded(obj, x, WithValue(Indexed(x, Scalar(<<0, 1, 2, 3, 4>>)), LinearMI_value(x)))

\* the third residual with x[4] subtracted
LinearMI_residualsMinusX4(x) ==
    << Exact(QSub(QAdd(At(x, 0), At(x, 2)), Frac(16, 10))),
       Exact(QSub(QAdd(QMul(Frac(1333, 1000), At(x, 1)), At(x, 3)), Q(3))),
       Exact(QSub(QSub(QNeg(At(x, 2)), At(x, 3)), At(x, 4))) >>

\* vec[0] = x[0] + x[2] - 1.6; vec[1] = 1.333 * x[1] + x[3] - 3
\* vec[2] = - x[2] - x[3] + x[4]
LinearMI_residuals(x) ==
    << Exact(QSub(QAdd(At(x, 0), At(x, 2)), Frac(16, 10))),
       Exact(QSub(QAdd(QMul(Frac(1333, 1000), At(x, 1)), At(x, 3)), Q(3))),
       Exact(QAdd(QSub(QNeg(At(x, 2)), At(x, 3)), At(x, 4))) >>

\* vec = np.zeros((3,)); ...; return vec
LinearMI_eval_ineq_constraints(obj, x) ==
    WithVec(Indexed(x, Returned("vector", <<0, 2, 1, 3, 2, 3, 4>>, <<0, 1, 2>>, 3)),
            LinearMI_residuals(x))

\* obj.objfunction(x)
objfunction(obj, x) ==
    CASE obj.cls = "Hartman3" -> Hartman3_objfunction(obj, x)
      [] obj.cls = "Rastrigin" -> Rastrigin_objfunction(obj, x)
      [] obj.cls = "Ackley" -> Ackley_objfunction(obj, x)
      [] obj.cls = "Griewank" -> Griewank_objfunction(obj, x)
      [] obj.cls = "Rosenbrock" -> Rosenbrock_objfunction(obj, x)
      [] obj.cls = "Schwefel" -> Schwefel_objfunction(obj, x)
      [] obj.cls = "Sphere" -> Sphere_objfunction(obj, x)
      [] obj.cls = "Exponential" -> Exponential_objfunction(obj, x)
      [] obj.cls = "StyblinskiTang" -> StyblinskiTang_objfunction(obj, x)
      [] obj.cls = "Quartic" -> Quartic_objfunction(obj, x)
      [] obj.cls = "Whitley" -> Whitley_objfunction(obj, x)
      [] obj.cls = "SchafferF7" -> SchafferF7_objfunction(obj, x)
      [] obj.cls = "Keane" -> Keane_objfunction(obj, x)
      [] obj.cls = "LargestPolygon" -> LargestPolygon_objfunction(obj, x)
      [] obj.cls = "LinearMI" -> LinearMI_objfunction(obj, x)

\* obj.eval_ineq_constraints(x)
eval_ineq_constraints(obj, x) ==
    CASE obj.cls = "Keane" -> Keane_eval_ineq_constraints(obj, x)
      [] obj.cls = "LargestPolygon" -> LargestPolygon_eval_ineq_constraints(obj, x)
      [] obj.cls = "LinearMI" -> LinearMI_eval_ineq_constraints(obj, x)

(* ----------------------- user-defined problems ------------------------- *)

\* validate is the check a user-defined problem class runs on itself at the end
\* of its __init__, as the shipped classes do.  These are the objects such a
\* class hands it.

Seqs(S, n) == UNION {[1..k -> S] : k \in 0..n}

UserObject(dim, xlow, xup, integer, continuous, constraints, methods) ==
    [cls |-> "User", dim |-> dim, xlow |-> xlow, xup |-> xup,
     integer |-> integer, continuous |-> continuous,
     constraints |-> constraints, min |-> AbsentMin, prng |-> AbsentPrng,
     methods |-> methods]

\* obj without the attributes and methods named in missing
Without(obj, missing) ==
    [a \in DOMAIN obj |->
        IF a = "methods" THEN obj.methods \ missing
        ELSE IF a \in missing THEN NoObj[a]
        ELSE obj[a]]

\* the dims, bound arrays and index containers of the objects below
UserDims == {PyInt(d) : d \in -1..MaxUserDim} \cup {PyFloat(1)}
BoundArrays == Seqs({0, 1}, MaxUserDim)
IndexContainers ==
    {ndarray(s) : s \in Seqs(-1..MaxUserDim, MaxUserDim)} \cup {list(<<>>)}
\* index containers that are right for dim d, overlapping, or out of range
IndexPairs ==
    UNION { { <<list(<<>>), np_arange(0, d)>>,
              <<np_arange(0, d), np_arange(0, d)>>,
              <<ndarray(<<d>>), np_arange(0, d)>> } : d \in 0..MaxUserDim }

(* ------------------------------- actions ------------------------------- *)

NoCons == [op |-> "none", cls |-> "None", args |-> <<>>, validated |-> FALSE,
           exc |-> "none", msg |-> "", check |-> "", evaluated |-> <<>>]

NoRet == [op |-> "none", x |-> <<>>, exc |-> "none", msg |-> "", reads |-> <<>>,
          writes |-> <<>>, size |-> 0, kind |-> "none", value |-> NoValue,
          vec |-> <<>>, rd |-> {}, wr |-> {}]

\* nthreads = 4: the worker threads given the same problem object
nthreads == 4
Callers == 1..nthreads

\* what a caller sees of a call r: the exception raised, or the number returned
\* (the rational part q of it when the model leaves an expression)
Outcome(r) == [exc |-> r.exc, exact |-> r.value.exact, q |-> r.value.q]

\* a caller that is not inside a call.  at is where a caller stands in its call,
\* rd and wr the attributes of the object the call has read and assigned so far,
\* r its outcome once the body has run
Idle == [at |-> "idle", op |-> "none", x |-> <<>>, rd |-> {}, wr |-> {},
         r |-> Outcome(NoRet)]

\* prev is an earlier call the caller has kept the outcome of
Init ==
    /\ pc = "start"
    /\ self = NoObj
    /\ cons = NoCons
    /\ fun = NoObj
    /\ ret = NoRet
    /\ prev = NoRet
    /\ callers = [t \in Callers |-> Idle]

\* the outcome r of an __init__: the name is bound only if nothing was raised
Bind(op, cls, args, r) ==
    /\ self' = r.self
    /\ cons' = [op |-> op, cls |-> cls, args |-> args, validated |-> r.validated,
                exc |-> r.exc, msg |-> r.msg, check |-> r.check,
                evaluated |-> r.evaluated]
    /\ IF r.exc = "none"
       THEN pc' = "constructed" /\ fun' = r.self
       ELSE pc' = "raised" /\ fun' = NoObj
    /\ UNCHANGED <<ret, prev, callers>>

\* the short vectors with components 0, 1 and 2
ShortVectors == Seqs({Q(0), Q(1), Q(2)}, MaxWideLen)

\* the vectors handed to the evaluators: every 0/1 vector, and the short ones
Vectors == Seqs({Q(0), Q(1)}, MaxXLen) \cup ShortVectors

\* LinearMI's __init__ takes no dim
ArgsOf(cls) ==
    IF cls = "LinearMI" THEN {<<>>} ELSE {<<>>} \cup {<<d>> : d \in -1..MaxDimArg}

\* the states of a random generator
PrngStates == 0..(UGrid - 1)

\* the states a call can leave the generator of obj in
NextPrng(obj) == IF obj.prng.ty = "Random" THEN PrngStates ELSE {obj.prng.v}

\* self.prng.seed(time()): the clock decides the state k the generator starts in
Seeded(r, k) ==
    IF r.self.prng.ty = "Random" THEN [r EXCEPT !.self.prng = Random(k)] ELSE r

\* fun = cls() or fun = cls(dim=d)
New ==
    /\ pc = "start"
    /\ \E cls \in Classes : \E args \in ArgsOf(cls) :
        \E k \in (IF cls = "Quartic" THEN PrngStates ELSE {0}) :
            Bind("new", cls, args, Seeded(Construct(cls, args), k))

\* fun = UserProblem(...), whose __init__ assigns the object's attributes and
\* then calls validate(self): attributes missing or of the wrong type
NewUserStruct ==
    /\ pc = "start"
    /\ \E dim \in {PyInt(1), PyInt(0), PyFloat(1)},
          xlow \in {ndarray(<<0>>), list(<<0>>)},
          xup \in {ndarray(<<1>>), list(<<1>>)},
          integer \in {list(<<>>), ndarray(<<>>), tuple(<<>>), list(<<0>>)},
          continuous \in {ndarray(<<0>>), list(<<0>>), list(<<>>), tuple(<<0>>)},
          constraints \in {PyBool(TRUE), PyBool(FALSE), [ty |-> "int", v |-> TRUE]},
          missing \in {m \in SUBSET (Attrs \cup MethodNames) : Cardinality(m) <= 2} :
            Bind("new", "User", <<>>,
                 Validated(Without(UserObject(dim, xlow, xup, integer, continuous,
                                              constraints, MethodNames), missing)))

\* the same, with every dim and every pair of bound arrays
NewUserBounds ==
    /\ pc = "start"
    /\ \E dim \in UserDims, lo \in BoundArrays, hi \in BoundArrays, ix \in IndexPairs :
            Bind("new", "User", <<>>,
                 Validated(UserObject(dim, ndarray(lo), ndarray(hi), ix[1], ix[2],
                                      PyBool(FALSE), {"objfunction"})))

\* the same, with every content of the two index containers
NewUserIndices ==
    /\ pc = "start"
    /\ \E d \in 1..MaxUserDim, integer \in IndexContainers,
          continuous \in IndexContainers :
            Bind("new", "User", <<>>,
                 Validated(UserObject(PyInt(d), np_zeros(d), np_ones(d), integer,
                                      continuous, PyBool(FALSE), {"objfunction"})))

Record(op, x, r) ==
    [op |-> op, x |-> x, exc |-> r.exc, msg |-> r.msg, reads |-> r.reads,
     writes |-> r.writes, size |-> r.size, kind |-> r.kind, value |-> r.value,
     vec |-> r.vec, rd |-> r.rd, wr |-> r.wr]

\* the object after a call r: a draw leaves the generator in its next state k
Advance(obj, r, k) ==
    IF "prng" \in r.wr THEN [obj EXCEPT !.prng = Random(k)] ELSE obj

\* fun.objfunction(x)
CallObjfunction ==
    /\ pc = "constructed"
    /\ fun.cls \in Classes
    /\ \E x \in Vectors : \E k \in NextPrng(fun) :
            /\ ret' = Record("objfunction", x, objfunction(fun, x))
            /\ fun' = Advance(fun, objfunction(fun, x), k)
            /\ self' = Advance(self, objfunction(fun, x), k)
    /\ pc' = "called"
    /\ UNCHANGED <<cons, prev, callers>>

\* a bound, kept in thousandths, as a number
Bound(b) == Frac(b, 1000)

\* the values of variable i (0-based) a mixed-integer search proposes: the
\* integers within its bounds if i is an integer variable, else the grid over
\* [xlow[i], xup[i]]
AxisPoints(obj, i) ==
    LET lo == obj.xlow.v[i + 1]
        hi == obj.xup.v[i + 1]
    IN IF i \in Range(obj.integer.v)
       THEN {Q(n) : n \in {m \in (lo \div 1000)..(hi \div 1000) :
                                lo <= 1000 * m /\ 1000 * m <= hi}}
       ELSE {QAdd(Bound(lo), QMul(Bound(hi - lo), Frac(k, Grid))) : k \in 0..Grid}

\* fun.objfunction(x) at such a point of LinearMI, the mixed-integer problem
CallObjfunctionInBounds ==
    /\ pc = "constructed"
    /\ fun.cls = "LinearMI"
    /\ \E x0 \in AxisPoints(fun, 0), x1 \in AxisPoints(fun, 1),
          x2 \in AxisPoints(fun, 2), x3 \in AxisPoints(fun, 3),
          x4 \in AxisPoints(fun, 4) :
            ret' = Record("objfunction", <<x0, x1, x2, x3, x4>>,
                          objfunction(fun, <<x0, x1, x2, x3, x4>>))
    /\ pc' = "called"
    /\ UNCHANGED <<self, cons, fun, prev, callers>>

\* fun.eval_ineq_constraints(x)
CallEvalIneq ==
    /\ pc = "constructed"
    /\ fun.cls \in ConstrainedClasses
    /\ \E x \in Vectors :
            ret' = Record("eval_ineq_constraints", x, eval_ineq_constraints(fun, x))
    /\ pc' = "called"
    /\ UNCHANGED <<self, cons, fun, prev, callers>>

\* the caller takes the value returned, or handles the exception raised, and goes
\* on to its next call
Consume ==
    /\ pc = "called"
    /\ pc' = "constructed"
    /\ ret' = NoRet
    /\ UNCHANGED <<self, cons, fun, prev, callers>>

\* the short vectors of the length fun expects
Matching == {x \in ShortVectors : Len(x) = fun.dim.v}

\* fun.objfunction(x) with x of the expected length
CallObjfunctionMatching ==
    /\ pc = "constructed"
    /\ fun.cls \in Classes
    /\ \E x \in Matching : \E k \in NextPrng(fun) :
            /\ ret' = Record("objfunction", x, objfunction(fun, x))
            /\ fun' = Advance(fun, objfunction(fun, x), k)
            /\ self' = Advance(self, objfunction(fun, x), k)
    /\ pc' = "called"
    /\ UNCHANGED <<cons, prev, callers>>

\* the caller keeps the outcome of the call to compare a later one with
Keep ==
    /\ pc = "called"
    /\ ret.op = "objfunction"
    /\ pc' = "constructed"
    /\ prev' = ret
    /\ ret' = NoRet
    /\ UNCHANGED <<self, cons, fun, callers>>

Next ==
    \/ New
    \/ NewUserStruct
    \/ NewUserBounds
    \/ NewUserIndices
    \/ CallObjfunction
    \/ CallObjfunctionInBounds
    \/ CallEvalIneq
    \/ Consume

Spec == Init /\ [][Next]_vars

\* one caller repeating calls on one object and comparing their outcomes
NextRepeat ==
    \/ New
    \/ CallObjfunctionMatching
    \/ Keep
    \/ Consume

SpecRepeat == Init /\ [][NextRepeat]_vars

\* the methods of obj a caller can call
CallableOps(obj) == obj.methods \cap MethodNames

\* the vector the worker threads pass: the origin of obj's space
CallerVectors(obj) == {[k \in 1..obj.dim.v |-> Q(0)]}

\* obj.op(x)
Invoke(obj, op, x) ==
    IF op = "objfunction" THEN objfunction(obj, x) ELSE eval_ineq_constraints(obj, x)

\* caller t calls fun.op(x): nothing of the body has run yet
CallerCalls ==
    /\ pc = "constructed"
    /\ fun.cls \in Classes
    /\ \E t \in Callers :
        /\ callers[t].at = "idle"
        /\ \E op \in CallableOps(fun), x \in CallerVectors(fun) :
                callers' = [callers EXCEPT ![t] =
                                [Idle EXCEPT !.at = "entered", !.op = op, !.x = x]]
    /\ UNCHANGED <<pc, self, cons, fun, ret, prev>>

\* the body of the call of caller t runs up to its return statement, or, in a
\* call that draws a random number, up to the draw
CallerRuns ==
    /\ pc = "constructed"
    /\ \E t \in Callers :
        /\ callers[t].at = "entered"
        /\ LET c == callers[t]
               r == Invoke(fun, c.op, c.x)
           IN callers' = [callers EXCEPT ![t] =
                IF r.wr = {}
                THEN [c EXCEPT !.at = "returning", !.rd = r.rd, !.r = Outcome(r)]
                ELSE [c EXCEPT !.at = "summed", !.rd = r.rd \ r.wr]]
    /\ UNCHANGED <<pc, self, cons, fun, ret, prev>>

\* self.prng.uniform(0, 1) in the call of caller t: the generator hands out the
\* number its state stands for and moves on to state k
CallerDraws ==
    /\ pc = "constructed"
    /\ \E t \in Callers :
        /\ callers[t].at = "summed"
        /\ \E k \in NextPrng(fun) :
            LET c == callers[t]
                r == Invoke(fun, c.op, c.x)
            IN /\ callers' = [callers EXCEPT ![t] =
                        [c EXCEPT !.at = "returning", !.rd = r.rd, !.wr = r.wr,
                                  !.r = Outcome(r)]]
               /\ fun' = Advance(fun, r, k)
               /\ self' = Advance(self, r, k)
    /\ UNCHANGED <<pc, cons, ret, prev>>

\* the call of caller t returns, or raises, and its frame is gone
CallerReturns ==
    /\ pc = "constructed"
    /\ \E t \in Callers :
        /\ callers[t].at = "returning"
        /\ callers' = [callers EXCEPT ![t] = Idle]
    /\ UNCHANGED <<pc, self, cons, fun, ret, prev>>

\* ackley = Ackley(dim=5): the object the worker threads share is built with an
\* explicit dim (LinearMI takes none)
NewShared ==
    /\ pc = "start"
    /\ \E cls \in Classes :
        \E args \in {a \in ArgsOf(cls) : a # <<>> \/ cls = "LinearMI"} :
        \E k \in (IF cls = "Quartic" THEN PrngStates ELSE {0}) :
            Bind("new", cls, args, Seeded(Construct(cls, args), k))

\* several callers sharing one object, their calls interleaved
NextCallers ==
    \/ NewShared
    \/ CallerCalls
    \/ CallerRuns
    \/ CallerDraws
    \/ CallerReturns

SpecCallers == Init /\ [][NextCallers]_vars

(* ------------------------------- claims -------------------------------- *)

\* C1: every shipped class, constructed with its default dimensionality, runs
\* validate through its last assert with no assertion failing, and the instance
\* is returned.
C1_DefaultConstructionValidates ==
    (cons.op = "new" /\ cons.cls \in Classes /\ cons.args = <<>>) =>
        /\ cons.validated
        /\ cons.exc = "none"
        /\ cons.evaluated # <<>>
        /\ cons.evaluated[Len(cons.evaluated)] = "count"
        /\ pc \in {"constructed", "called"}
        /\ fun = self

C1_Witness ==
    /\ cons.op = "new" /\ cons.cls = "LargestPolygon" /\ cons.args = <<>>
    /\ pc = "constructed"
    /\ fun.dim = PyInt(10)
    /\ len(fun.xup) = 10

\* C2: whenever validate returns without raising, the integer and continuous
\* indices are disjoint, all lie in 0..dim-1, and together cover 0..dim-1.
C2_ValidatedIndicesPartition ==
    (cons.validated /\ cons.exc = "none") =>
        LET I == Range(self.integer.v)
            C == Range(self.continuous.v)
        IN /\ I \cap C = {}
           /\ I \cup C \subseteq 0..(self.dim.v - 1)
           /\ I \cup C = 0..(self.dim.v - 1)

\* C3: objfunction on a vector whose length is not dim raises the
\* dimension-mismatch ValueError, having read nothing of x and returned nothing.
C3_WrongLengthRaises ==
    (ret.op = "objfunction" /\ Len(ret.x) # fun.dim.v) =>
        /\ ret.exc = "ValueError"
        /\ ret.msg = "Dimension mismatch"
        /\ ret.reads = <<>>
        /\ ret.kind = "none"

C3_Witness ==
    /\ ret.op = "objfunction" /\ fun.cls = "SchafferF7"
    /\ fun.dim.v = 2 /\ Len(ret.x) = 1
    /\ ret.exc = "ValueError"

\* C4: on every constructed instance, objfunction on a vector of length dim
\* returns a scalar and raises nothing.
C4_MatchingLengthReturnsScalar ==
    (ret.op = "objfunction" /\ Len(ret.x) = fun.dim.v) =>
        (ret.exc = "none" /\ ret.kind = "scalar")

\* C5: eval_ineq_constraints on a vector whose length is not dim raises the
\* dimension-mismatch error and never returns a residual vector.
C5_IneqWrongLengthRaises ==
    (ret.op = "eval_ineq_constraints" /\ Len(ret.x) # fun.dim.v) =>
        /\ ret.exc = "ValueError"
        /\ ret.msg = "Dimension mismatch"
        /\ ret.kind # "vector"

\* C6: in every instance construction returns (of a shipped class or of a
\* user-defined class that ends its __init__ with validate), xlow and xup have
\* length dim and xlow[i] < xup[i] for every i in 0..dim-1.
C6_ConstructedBoundsStrict ==
    (pc \in {"constructed", "called"}) =>
        /\ len(fun.xlow) = fun.dim.v
        /\ len(fun.xup) = fun.dim.v
        /\ \A i \in 0..(fun.dim.v - 1) : fun.xlow.v[i + 1] < fun.xup.v[i + 1]

C6_Witness ==
    /\ pc = "constructed" /\ fun.cls = "LargestPolygon" /\ fun.dim.v = 4
    /\ fun.xlow.v = <<0, 0, 0, 0>>
    /\ fun.xup.v = <<1000, 1000, 3142, 3142>>

\* C7: in every instance construction returns, len(continuous) + len(integer) is
\* dim and no index is in both; LinearMI has integer indices exactly 0, 1, 2 and
\* continuous indices exactly 3, 4; every other shipped class has no integer
\* index and continuous indices 0..dim-1.
C7_ConstructedIndexSets ==
    (pc \in {"constructed", "called"}) =>
        /\ len(fun.continuous) + len(fun.integer) = fun.dim.v
        /\ Range(fun.continuous.v) \cap Range(fun.integer.v) = {}
        /\ (fun.cls = "LinearMI") =>
                (fun.integer.v = <<0, 1, 2>> /\ fun.continuous.v = <<3, 4>>)
        /\ (fun.cls \in Classes \ {"LinearMI"}) =>
                /\ fun.integer.v = <<>>
                /\ Len(fun.continuous.v) = fun.dim.v
                /\ \A i \in 0..(fun.dim.v - 1) : fun.continuous.v[i + 1] = i

C7_Witness ==
    /\ pc = "constructed" /\ fun.cls = "LinearMI"
    /\ Range(fun.integer.v) = {0, 1, 2}
    /\ Range(fun.continuous.v) = {3, 4}

\* the objects C8 is about: dim is not a positive integer, or a bound array has
\* not length dim, or some lower bound is not below its upper bound
C8_BadDimOrBounds(obj) ==
    \/ obj.dim.ty # "int"
    \/ obj.dim.v <= 0
    \/ len(obj.xlow) # obj.dim.v
    \/ len(obj.xup) # obj.dim.v
    \/ \E i \in DOMAIN obj.xlow.v \cap DOMAIN obj.xup.v : obj.xlow.v[i] >= obj.xup.v[i]

C9_Groups ==
    << {"dim_present"}, {"xlow_present", "xlow_ndarray"}, {"xup_present", "xup_ndarray"},
       {"integer_present", "integer_typed"}, {"continuous_present", "continuous_typed"},
       {"constraints_present", "constraints_bool"}, {"objfunction_present"},
       {"eval_ineq_present"}, {"dim_positive_int"}, {"bound_lengths"}, {"strict_bounds"},
       {"integer_range"}, {"continuous_range"}, {"disjoint"}, {"count"} >>

C9_GroupOf(c) == CHOOSE g \in DOMAIN C9_Groups : c \in C9_Groups[g]

C9_IllTyped(a) ==
    \/ a.ty = "absent"
    \/ a.v # <<>> /\ a.ty # "ndarray"
    \/ a.v = <<>> /\ a.ty \notin {"ndarray", "list"}

\* whether obj violates the g-th check of C9
C9_Violates(g, obj) ==
    CASE g = 1 -> obj.dim.ty = "absent"
      [] g = 2 -> obj.xlow.ty # "ndarray"
      [] g = 3 -> obj.xup.ty # "ndarray"
      [] g = 4 -> C9_IllTyped(obj.integer)
      [] g = 5 -> C9_IllTyped(obj.continuous)
      [] g = 6 -> obj.constraints.ty # "bool"
      [] g = 7 -> "objfunction" \notin obj.methods
      [] g = 8 -> obj.constraints.v /\ "eval_ineq_constraints" \notin obj.methods
      [] g = 9 -> obj.dim.ty # "int" \/ obj.dim.v <= 0
      [] g = 10 -> Len(obj.xlow.v) # obj.dim.v \/ Len(obj.xup.v) # obj.dim.v
      [] g = 11 -> \E i \in DOMAIN obj.xlow.v \cap DOMAIN obj.xup.v :
                        i <= obj.dim.v /\ obj.xlow.v[i] >= obj.xup.v[i]
      [] g = 12 -> \E i \in Range(obj.integer.v) : i < 0 \/ i >= obj.dim.v
      [] g = 13 -> \E i \in Range(obj.continuous.v) : i < 0 \/ i >= obj.dim.v
      [] g = 14 -> \E i \in Range(obj.integer.v) : i \in Range(obj.continuous.v)
      [] g = 15 -> Len(obj.continuous.v) + Len(obj.integer.v) # obj.dim.v

C9_Violated(obj) == {g \in DOMAIN C9_Groups : C9_Violates(g, obj)}

C10_EvalIneqRequiredIffConstrained ==
    /\ (cons.validated /\ self.constraints = PyBool(TRUE)
            /\ "eval_ineq_constraints" \notin self.methods) =>
            /\ cons.exc = "AssertionError"
            /\ (\A g \in 1..7 : ~C9_Violates(g, self)) =>
                    cons.msg = "Method 'eval_ineq_constraints' is not implemented"
    /\ (cons.validated /\ self.constraints = PyBool(FALSE)) =>
            /\ cons.check # "eval_ineq_present"
            /\ "eval_ineq_present" \notin Range(cons.evaluated)
    /\ (pc \in {"constructed", "called"} /\ fun.cls \in Classes) =>
            /\ fun.constraints.v <=> fun.cls \in {"Keane", "LargestPolygon", "LinearMI"}
            /\ fun.constraints.v => "eval_ineq_constraints" \in fun.methods

C10_Witness ==
    /\ cons.validated
    /\ self.constraints = PyBool(TRUE)
    /\ "eval_ineq_constraints" \notin self.methods
    /\ cons.check = "eval_ineq_present"
    /\ cons.msg = "Method 'eval_ineq_constraints' is not implemented"

\* the vector of n copies of the number c
Const(c, n) == [k \in 1..n |-> Q(c)]

\* C11: objfunction at the documented optimum returns the number stored in min:
\* Sphere(dim) at all-zeros and Rosenbrock(dim) at all-ones return 0 for every
\* dim >= 1, and LinearMI at (1, 0, 0, 0, 0) returns -1.
C11_OptimumReturnsMin ==
    (pc = "called" /\ ret.op = "objfunction"
        /\ \/ fun.cls = "Sphere" /\ ret.x = Const(0, fun.dim.v)
           \/ fun.cls = "Rosenbrock" /\ ret.x = Const(1, fun.dim.v)
           \/ fun.cls = "LinearMI" /\ ret.x = <<Q(1), Q(0), Q(0), Q(0), Q(0)>>)
    => /\ ret.exc = "none"
       /\ ret.kind = "scalar"
       /\ fun.min.ty # "absent"
       /\ ret.value = Exact(fun.min.v)
       /\ fun.min.v = IF fun.cls = "LinearMI" THEN Q(-1) ELSE Q(0)

C11_Witness ==
    /\ pc = "called" /\ ret.op = "objfunction"
    /\ fun.cls = "Rosenbrock" /\ fun.dim.v = 3
    /\ ret.x = Const(1, 3)
    /\ ret.value = Exact(Q(0))

\* x lies within the bounds of obj
InBounds(obj, x) ==
    /\ Len(x) = obj.dim.v
    /\ \A k \in 1..Len(x) :
        QLe(Bound(obj.xlow.v[k]), x[k]) /\ QLe(x[k], Bound(obj.xup.v[k]))

\* x is whole at every index listed in obj.integer
IntegerAtIntegers(obj, x) == \A i \in Range(obj.integer.v) : At(x, i)[2] = 1

\* obj.eval_ineq_constraints(x) has no positive entry
NoPositiveResidual(obj, x) ==
    LET r == eval_ineq_constraints(obj, x)
    IN /\ r.exc = "none"
       /\ \A k \in DOMAIN r.vec : r.vec[k].exact /\ QLe(r.vec[k].q, Q(0))

\* C12: LinearMI's documented optimum is the constrained minimum: (1,0,0,0,0) is
\* within the bounds with no positive residual, and every x within the bounds,
\* whole at indices 0..2, with no positive residual has objfunction(x) >= -1 = min.
C12_LinearMIOptimumIsConstrainedMin ==
    (pc \in {"constructed", "called"} /\ fun.cls = "LinearMI") =>
        /\ fun.min.v = Q(-1)
        /\ Range(fun.integer.v) = {0, 1, 2}
        /\ InBounds(fun, <<Q(1), Q(0), Q(0), Q(0), Q(0)>>)
        /\ NoPositiveResidual(fun, <<Q(1), Q(0), Q(0), Q(0), Q(0)>>)
        /\ (pc = "called" /\ ret.op = "objfunction" /\ InBounds(fun, ret.x)
                /\ IntegerAtIntegers(fun, ret.x) /\ NoPositiveResidual(fun, ret.x))
            => /\ ret.exc = "none"
               /\ ret.value.exact
               /\ QLe(fun.min.v, ret.value.q)

C12_Witness ==
    /\ pc = "called" /\ fun.cls = "LinearMI" /\ ret.op = "objfunction"
    /\ ret.x = <<Q(1), Q(0), Q(0), Frac(1, 2), Frac(1, 2)>>
    /\ NoPositiveResidual(fun, ret.x)
    /\ ret.value = Exact(Frac(-1, 4))

\* C15: LargestPolygon(dim) with an odd dim fails its own assertion before any
\* attribute is assigned and before validate is called; with an even dim >= 2 it
\* is constructed with xup[i] = 1 for i < dim/2 and xup[i] = pi for i >= dim/2.
C15_LargestPolygonParity ==
    (cons.op = "new" /\ cons.cls = "LargestPolygon" /\ cons.args # <<>>) =>
        LET dim == cons.args[1]
        IN /\ dim % 2 = 1 =>
                /\ pc = "raised"
                /\ cons.exc = "AssertionError"
                /\ cons.msg = "dim was odd, should be even"
                /\ ~cons.validated
                /\ \A a \in Attrs \cup {"min", "prng"} : ~hasattr(self, a)
           /\ (dim % 2 = 0 /\ dim >= 2) =>
                /\ pc \in {"constructed", "called"}
                /\ cons.exc = "none"
                /\ cons.validated
                /\ fun.dim = PyInt(dim)
                /\ fun.xup.ty = "ndarray"
                /\ Len(fun.xup.v) = dim
                /\ \A i \in 0..(dim - 1) :
                        fun.xup.v[i + 1] = IF i < dim \div 2 THEN 1000 ELSE 3142

C15_Witness ==
    /\ cons.op = "new" /\ cons.cls = "LargestPolygon" /\ cons.args = <<3>>
    /\ pc = "raised"
    /\ cons.msg = "dim was odd, should be even"
    /\ ~cons.validated

\* C16: for every even dim >= 2, LargestPolygon.eval_ineq_constraints returns a
\* vector of length (dim/2)^2 + dim/2 - 1 in which every position is written
\* exactly once and no write falls outside it: the pair loop writes position
\* i*(dim/2) + j, the angle loop writes (dim/2)^2 + i for i in 0..dim/2-2, and x
\* is read only at indices below dim.
C16_LargestPolygonVectorLayout ==
    (pc = "called" /\ ret.op = "eval_ineq_constraints"
        /\ fun.cls = "LargestPolygon" /\ Len(ret.x) >= fun.dim.v) =>
        LET dim == fun.dim.v
            h == dim \div 2
            n == h * h + h - 1
        IN /\ dim % 2 = 0 /\ dim >= 2
           /\ ret.exc = "none"
           /\ ret.kind = "vector"
           /\ ret.size = n
           /\ Len(ret.vec) = n
           /\ \A k \in DOMAIN ret.writes : ret.writes[k] \in 0..(n - 1)
           /\ \A p \in 0..(n - 1) :
                Cardinality({k \in DOMAIN ret.writes : ret.writes[k] = p}) = 1
           /\ \A i \in 0..(h - 1) : \A j \in 0..(h - 1) :
                ret.writes[i * h + j + 1] = i * h + j
           /\ \A i \in 0..(h - 2) : ret.writes[h * h + i + 1] = h * h + i
           /\ \A k \in DOMAIN ret.reads : 0 <= ret.reads[k] /\ ret.reads[k] < dim

C16_Witness ==
    /\ pc = "called" /\ ret.op = "eval_ineq_constraints"
    /\ fun.cls = "LargestPolygon" /\ fun.dim.v = 4
    /\ Len(ret.x) = 4
    /\ ret.exc = "none"
    /\ ret.size = 5
    /\ ret.writes = <<0, 1, 2, 3, 4>>

\* C17: Exponential.objfunction computes the documented sum: term j, for j in
\* 1..dim, is exp(j * x_j) - exp(-5.12 * j), coefficient j going with the j-th
\* component of x.
C17_ExponentialDocumentedSum ==
    (pc = "called" /\ ret.op = "objfunction" /\ fun.cls = "Exponential"
        /\ ret.exc = "none") =>
        /\ Len(ret.value.args) = fun.dim.v
        /\ \A j \in 1..fun.dim.v :
            ret.value.args[j] = <<QMul(Q(j), ret.x[j]), QMul(Frac(-512, 100), Q(j))>>

\* C18: Whitley.objfunction computes the documented double sum: the quantity fed
\* to the squared/4000 term and to the cosine is 100*(x_i^2 - x_j)^2 + (1 - x_j)^2
\* for each i and j, and the result at the all-ones vector is 0.
C18_WhitleyDocumentedSum ==
    (pc = "called" /\ ret.op = "objfunction" /\ fun.cls = "Whitley"
        /\ ret.exc = "none") =>
        LET n == fun.dim.v
        IN /\ Len(ret.value.args) = n * n
           /\ \A i \in 1..n : \A j \in 1..n :
                ret.value.args[(i - 1) * n + j] =
                    QAdd(QMul(Q(100), Sq(QSub(Sq(ret.x[i]), ret.x[j]))),
                         Sq(QSub(Q(1), ret.x[j])))
           /\ ret.x = Const(1, n) => ret.value.exact /\ ret.value.q = Q(0)

\* sum_i (i+1) * x[i]^4 over the 0-based indices of x
WeightedQuartics(x) == QSum([k \in 1..Len(x) |-> QMul(Q(k), Pow4(x[k]))])

\* C14: for every class other than Quartic two objfunction calls with the same x
\* return the same value, whatever calls came between them; Quartic is the only
\* evaluator that uses the object's random generator, and its result is
\* sum_i (i+1)*x[i]^4 + u with 0 <= u < 1 drawn anew by each call.
C14_OnlyQuarticIsRandom ==
    (pc = "called" /\ ret.op = "objfunction") =>
        /\ (fun.cls # "Quartic" /\ prev.op = "objfunction" /\ prev.x = ret.x) =>
                /\ ret.exc = prev.exc
                /\ ret.value = prev.value
        /\ (fun.cls # "Quartic") => ("prng" \notin ret.rd /\ ret.wr = {})
        /\ (fun.cls = "Quartic" /\ ret.exc = "none") =>
                /\ ret.rd = {"dim", "prng"} /\ ret.wr = {"prng"}
                /\ ret.value.exact
                /\ LET u == QSub(ret.value.q, WeightedQuartics(ret.x))
                   IN QLe(Q(0), u) /\ QLt(u, Q(1))

C14_Witness ==
    /\ pc = "called" /\ ret.op = "objfunction" /\ prev.op = "objfunction"
    /\ fun.cls = "Quartic"
    /\ prev.x = ret.x
    /\ ret.x = <<Q(0), Q(1)>>
    /\ prev.value = Exact(Q(2))
    /\ ret.value = Exact(Frac(5, 2))

\* the callers inside a call
InFlight == {t \in Callers : callers[t].at # "idle"}

\* C13 as stated: however the calls of several callers on one object interleave,
\* no call assigns an attribute of the object that another call reads, for every
\* problem type.
C13_NoSharedMutableState ==
    \A t \in InFlight : \A o \in InFlight \ {t} :
        callers[t].wr \cap callers[o].rd = {}

\* C13 amended: the only attribute a call assigns is prng, and only
\* Quartic.objfunction assigns it; calls of every other class assign nothing, and
\* no call changes dim, xlow, xup, integer, continuous, constraints or min.
\* Concurrent Quartic.objfunction calls do share the generator's state.
C13_OnlyQuarticSharesItsGenerator ==
    /\ \A t \in InFlight :
        /\ callers[t].wr \subseteq {"prng"}
        /\ callers[t].wr # {} =>
                fun.cls = "Quartic" /\ callers[t].op = "objfunction"
        /\ \A o \in InFlight \ {t} :
                callers[t].wr \cap callers[o].rd \subseteq {"prng"}
    /\ pc = "constructed" =>
        \A a \in Attrs \cup {"min", "cls", "methods"} :
            fun[a] = Construct(cons.cls, cons.args).self[a]

C13_Witness ==
    /\ fun.cls = "Quartic"
    /\ callers[1].at = "returning" /\ callers[2].at = "returning"
    /\ callers[1].wr = {"prng"} /\ "prng" \in callers[2].rd
    /\ callers[1].x = callers[2].x
    /\ callers[1].r.exact /\ callers[2].r.exact
    /\ callers[1].r.q # callers[2].r.q

====
